---- MODULE Spec2Model ----
(***************************************************************************)
(* Model of the BPMN command pipeline of the ai-chatbot repository:        *)
(*   - BpmnCommandQueue (lib/ameide/bpmn/command-queue.ts), the client     *)
(*     side retry queue,                                                   *)
(*   - captureCommand (artifacts/bpmn/client.tsx, SDK variant), which      *)
(*     calls executeCommand directly, without the queue,                   *)
(*   - InMemoryEventStore (lib/event-store/index.ts), the store that the   *)
(*     command endpoint publishes to.                                      *)
(*                                                                         *)
(* JavaScript runs a handler to completion between two awaits, so every    *)
(* action below is the code from one suspension point to the next.         *)
(***************************************************************************)
EXTENDS Integers, Sequences, FiniteSets, TLC

\* ------------------------------------------------------------------ bounds
MaxCommands == 2      \* commands handed to enqueue in one behaviour
MaxDirect == 1        \* commands sent by captureCommand in one behaviour
MaxEvents == 3        \* events the store accepts in one behaviour

\* --------------------------------------------------------------- constants
maxRetries == 3       \* BpmnCommandQueue constructor default

\* identities of the Command objects of one behaviour
Uids == 1..(MaxCommands + MaxDirect)
Aggregates == {"A", "B"}
\* command.header?.id || '' : a command without a header has the key ''
CommandIds == {"", "c1"}

VARIABLES
  queue,         \* BpmnCommandQueue.queue : Command[]
  processing,    \* BpmnCommandQueue.processing
  retryCount,    \* BpmnCommandQueue.retryCount : Map<string, number>
  loops,         \* the running process() invocations, each at its await
  direct,        \* executeCommand calls made by captureCommand, in flight
  events,        \* InMemoryEventStore.events : Map<aggregateId, StoredEvent[]>
  eventCounter,  \* InMemoryEventStore.eventCounter
  console,       \* what the queue wrote with console.error
  enqueueResult, \* how the promise returned by enqueue(command) settled
  nextUid,       \* number of Command objects created so far, plus one
  enqueueOrder,  \* the commands in the order enqueue received them
  attempts,      \* per command: number of executeCommand calls by the queue
  outcome,       \* per command: "pending", "delivered" or "dropped"
  feed,          \* a reader of GET /api/bpmn/commands (getEventsSince)
  editor,        \* the BPMN editor component (artifacts/bpmn/client.tsx)
  document,      \* the stored document of the bpmn document handler
  api,           \* the running POST /api/bpmn/commands handlers
  swr,           \* useArtifactPolling and the view that renders it
  translator,    \* the calls of BpmnEventTranslator.translateEvent
  waits,         \* the last calls of BpmnCommandQueue.backoff
  lifecycle      \* mounting and unmounting of the BPMN editor

vars == <<queue, processing, retryCount, loops, direct, events, eventCounter,
          console, enqueueResult, nextUid, enqueueOrder, attempts, outcome,
          feed, editor, document, api, swr, translator,
          waits,
          lifecycle>>

queueVars == <<queue, processing, retryCount, loops, console, enqueueResult,
               enqueueOrder, attempts, outcome>>
storeVars == <<events, eventCounter>>
\* the state of the components outside the command queue and the store
componentVars == <<feed, editor, document, api, swr, translator,
                  waits,
                  lifecycle>>
\* the state of the command queue, of captureCommand and their bookkeeping
pipelineVars == <<queueVars, direct, nextUid>>

\* ----------------------------------------------------------------- helpers
\* A Command object; uid is the identity of the object, id is header.id.
Command(uid, id, agg) == [uid |-> uid, id |-> id, aggregateId |-> agg]

\* Map.get(key) || 0
MapGet(m, k) == IF k \in DOMAIN m THEN m[k] ELSE 0
\* Map.set(key, value)
MapSet(m, k, v) == [x \in (DOMAIN m) \cup {k} |-> IF x = k THEN v ELSE m[x]]
\* Map.delete(key)
MapDelete(m, k) == [x \in (DOMAIN m) \ {k} |-> m[x]]

RemoveAt(s, i) == SubSeq(s, 1, i - 1) \o SubSeq(s, i + 1, Len(s))

\* ------------------------------------------------------------- event store
\* faulty variant: the counter is read but not incremented
NextEventIdStuck(counter) == counter
\* ++this.eventCounter
NextEventId(counter) == counter + 1

\* the StoredEvent built by publish
StoredEvent(eventId, event) ==
  [id |-> eventId,
   aggregateId |-> event.aggregateId,
   data |-> event.data,
   correlationId |-> event.data.id,
   causationId |-> event.data.id]

\* the event the command endpoint hands to publish for a command
EventOf(cmd) == [aggregateId |-> cmd.aggregateId, data |-> cmd]

\* InMemoryEventStore.publish(event): always appends, whatever the caller
\* expected the head of the log to be.
Publish(event) ==
  /\ eventCounter' = NextEventId(eventCounter)
  /\ events' = [events EXCEPT ![event.aggregateId] =
                  Append(@, StoredEvent(NextEventId(eventCounter), event))]

\* -------------------------------------------------------- BpmnCommandQueue
\* faulty variant: this.queue.pop()
Pop(q) == [command |-> q[Len(q)], rest |-> SubSeq(q, 1, Len(q) - 1)]
\* this.queue.shift()
Shift(q) == [command |-> Head(q), rest |-> Tail(q)]

\* faulty variant: this.queue.push(command)
PushBack(q, command) == Append(q, command)
\* this.queue.unshift(command)
Unshift(q, command) == <<command>> \o q

\* faulty variant: retries <= this.maxRetries
CanRetryInclusive(retries) == retries <= maxRetries
\* if (retries < this.maxRetries)
CanRetry(retries) == retries < maxRetries

\* faulty variant: enqueue starts process() without looking at the flag
AlwaysStart(flag) == TRUE
\* if (!this.processing) in enqueue
MustStart(flag) == ~flag

\* Math.min(1000 * Math.pow(2, retryCount), 10000)
Min(a, b) == IF a < b THEN a ELSE b
\* faulty variant: the delay is not capped
BackoffDelayUncapped(n) == 1000 * (2 ^ n)
BackoffDelay(n) == Min(1000 * (2 ^ n), 10000)

\* a process() invocation suspended in `await this.client.executeCommand`.
\* The call is taken to settle as a whole: once it has rejected, its request
\* no longer reaches the store.
\* net = "sent": the request has not reached the store;
\* net = "appended": the store has published it, the response is on its way
AwaitExec(cmd) ==
  [pc |-> "exec", command |-> cmd, net |-> "sent",
   expectedSequence |-> Len(events[cmd.aggregateId]), delay |-> 0]
\* a process() invocation suspended in `await this.backoff(retries)`
AwaitBackoff(cmd, retries) ==
  [pc |-> "backoff", command |-> cmd, net |-> "none",
   expectedSequence |-> 0, delay |-> BackoffDelay(retries)]

\* faulty variant: process() returns without clearing this.processing
LoopStepStaysBusy(others, q, flag) ==
  IF Len(q) > 0
    THEN /\ queue' = Shift(q).rest
         /\ loops' = Append(others, AwaitExec(Shift(q).command))
         /\ attempts' = [attempts EXCEPT ![Shift(q).command.uid] = @ + 1]
         /\ processing' = flag
    ELSE /\ queue' = q
         /\ loops' = others
         /\ attempts' = attempts
         /\ processing' = flag
\* One evaluation of `while (this.queue.length > 0)` by a process()
\* invocation, up to its next await or to its return. others: the other
\* invocations; q: the queue; flag: this.processing before the test.
LoopStep(others, q, flag) ==
  IF Len(q) > 0
    THEN /\ queue' = Shift(q).rest
         /\ loops' = Append(others, AwaitExec(Shift(q).command))
         /\ attempts' = [attempts EXCEPT ![Shift(q).command.uid] = @ + 1]
         /\ processing' = flag
    ELSE /\ queue' = q
         /\ loops' = others
         /\ attempts' = attempts
         /\ processing' = FALSE

\* enqueue(command): push, and start process() unless one is running.
\* The promise of enqueue resolves at once: process() is not awaited.
Enqueue(id, agg) ==
  /\ nextUid <= MaxCommands + MaxDirect
  /\ Len(enqueueOrder) < MaxCommands
  /\ LET cmd == Command(nextUid, id, agg)
         q == Append(queue, cmd)
     IN /\ nextUid' = nextUid + 1
        /\ enqueueOrder' = Append(enqueueOrder, cmd.uid)
        /\ enqueueResult' = [enqueueResult EXCEPT ![cmd.uid] = "resolved"]
        /\ outcome' = [outcome EXCEPT ![cmd.uid] = "pending"]
        /\ IF MustStart(processing)
             THEN LoopStep(loops, q, TRUE)
             ELSE /\ queue' = q
                  /\ UNCHANGED <<loops, processing, attempts>>
  /\ UNCHANGED <<retryCount, console, direct, storeVars>>
  /\ UNCHANGED componentVars

\* The store handles the request of a suspended executeCommand call.
ServerPublish(i) ==
  /\ i \in 1..Len(loops)
  /\ loops[i].pc = "exec"
  /\ loops[i].net = "sent"
  /\ eventCounter < MaxEvents
  /\ Publish(EventOf(loops[i].command))
  /\ loops' = [loops EXCEPT ![i].net = "appended"]
  /\ UNCHANGED <<queue, processing, retryCount, console, enqueueResult,
                 enqueueOrder, attempts, outcome, direct, nextUid>>
  /\ UNCHANGED componentVars

\* `await this.client.executeCommand(command)` resolves:
\* this.retryCount.delete(commandId), then the next iteration.
ExecResolve(i) ==
  /\ i \in 1..Len(loops)
  /\ loops[i].pc = "exec"
  /\ loops[i].net = "appended"
  /\ retryCount' = MapDelete(retryCount, loops[i].command.id)
  /\ outcome' = [outcome EXCEPT ![loops[i].command.uid] = "delivered"]
  /\ LoopStep(RemoveAt(loops, i), queue, processing)
  /\ UNCHANGED <<console, enqueueResult, enqueueOrder, direct, storeVars,
                 nextUid>>
  /\ UNCHANGED componentVars

\* `await this.client.executeCommand(command)` rejects (the request was
\* lost before the store saw it, or the response was lost after the store
\* published it): the catch branch.
ExecReject(i) ==
  /\ i \in 1..Len(loops)
  /\ loops[i].pc = "exec"
  /\ LET command == loops[i].command
         retries == MapGet(retryCount, command.id)
     IN IF CanRetry(retries)
          THEN /\ retryCount' = MapSet(retryCount, command.id, retries + 1)
               /\ queue' = Unshift(queue, command)
               /\ loops' = [loops EXCEPT ![i] = AwaitBackoff(command, retries)]
               /\ UNCHANGED <<processing, console, attempts, outcome>>
          ELSE /\ console' = Append(console, "Command failed after max retries:")
               /\ retryCount' = MapDelete(retryCount, command.id)
               /\ outcome' = [outcome EXCEPT ![command.uid] = "dropped"]
               /\ LoopStep(RemoveAt(loops, i), queue, processing)
  /\ UNCHANGED <<enqueueResult, enqueueOrder, direct, storeVars, nextUid>>
  /\ UNCHANGED componentVars

\* `await this.backoff(retries)` resolves: the next iteration.
BackoffDone(i) ==
  /\ i \in 1..Len(loops)
  /\ loops[i].pc = "backoff"
  /\ LoopStep(RemoveAt(loops, i), queue, processing)
  /\ UNCHANGED <<retryCount, console, enqueueResult, enqueueOrder, outcome,
                 direct, storeVars, nextUid>>
  /\ UNCHANGED componentVars

\* ------------------------------------------------------ captureCommand
\* captureCommand: translate the editor event and call
\* client.executeCommand(command) directly. expectedSequence is the head of
\* the aggregate's log at the time of the call.
DirectSend(agg) ==
  /\ nextUid <= MaxCommands + MaxDirect
  /\ nextUid - 1 - Len(enqueueOrder) < MaxDirect
  /\ direct' = direct \cup
       {[command |-> Command(nextUid, "c1", agg), net |-> "sent",
         expectedSequence |-> Len(events[agg]), result |-> "none"]}
  /\ nextUid' = nextUid + 1
  /\ UNCHANGED <<queueVars, storeVars>>
  /\ UNCHANGED componentVars

\* The store handles the request of a captureCommand call.
DirectPublish(r) ==
  /\ r \in direct
  /\ r.net = "sent"
  /\ eventCounter < MaxEvents
  /\ Publish(EventOf(r.command))
  /\ direct' = (direct \ {r}) \cup
       {[r EXCEPT !.net = "appended", !.result = "ok"]}
  /\ UNCHANGED <<queueVars, nextUid>>
  /\ UNCHANGED componentVars

\* The executeCommand call of captureCommand settles (result or error);
\* captureCommand does not retry.
DirectReturn(r) ==
  /\ r \in direct
  /\ direct' = direct \ {r}
  /\ UNCHANGED <<queueVars, storeVars, nextUid>>
  /\ UNCHANGED componentVars

\* ------------------------------------------------- getEventsSince
MaxFeedEvents == 103  \* events the store accepts while the feed is read
MaxInterleave == 2    \* appends to other aggregates fall among the first ones

PageLimit == 100      \* .slice(0, 100)

Digits == <<"0", "1", "2", "3", "4", "5", "6", "7", "8", "9">>
DigitValue(c) == (CHOOSE d \in 1..10 : Digits[d] = c) - 1
IsDigit(c) == \E d \in 1..10 : Digits[d] = c

\* String(n) for n >= 0: the decimal digits of n
RECURSIVE ToStr(_)
ToStr(n) == IF n < 10 THEN <<Digits[n + 1]>>
            ELSE Append(ToStr(n \div 10), Digits[(n % 10) + 1])

\* the value of the longest prefix of s made of digits, after acc
RECURSIVE DigitRun(_, _)
DigitRun(s, acc) ==
  IF s = <<>> \/ ~IsDigit(Head(s)) THEN acc
  ELSE DigitRun(Tail(s), 10 * acc + DigitValue(Head(s)))

\* parseInt(s): an optional sign, then the leading digits; NaN without any
ParseInt(s) ==
  LET neg == s # <<>> /\ Head(s) = "-"
      body == IF neg THEN Tail(s) ELSE s
  IN IF body = <<>> \/ ~IsDigit(Head(body))
       THEN [nan |-> TRUE, value |-> 0]
       ELSE [nan |-> FALSE,
             value |-> IF neg THEN 0 - DigitRun(body, 0) ELSE DigitRun(body, 0)]

\* parseInt(since) || 0
SinceId(since) == IF ParseInt(since).nan THEN 0 ELSE ParseInt(since).value

\* faulty variant: the filter keeps the event the reader already has
IsAtOrAfter(id, sinceId) == id >= sinceId
\* parseInt(event.id) > sinceId, event.id being String(counter)
IsAfter(id, sinceId) == ParseInt(ToStr(id)).value > sinceId

\* faulty variant: no .slice
SliceAll(s, n) == s
\* .slice(0, n)
Slice(s, n) == SubSeq(s, 1, IF Len(s) < n THEN Len(s) ELSE n)

\* InMemoryEventStore.getEventsSince(documentId, since)
GetEventsSince(documentId, since) ==
  LET aggregateEvents == IF documentId \in DOMAIN events
                           THEN events[documentId] ELSE <<>>
      sinceId == SinceId(since)
      Keep(event) == IsAfter(event.id, sinceId)
  IN Slice(SelectSeq(aggregateEvents, Keep), PageLimit)

\* GET /api/bpmn/commands: since || '0'; null stands for an absent parameter
GetEndpoint(documentId, since) ==
  GetEventsSince(documentId, IF since = <<>> THEN <<"0">> ELSE since)

FeedInit ==
  [pending |-> FALSE, documentId |-> "A", since |-> <<>>, sinceNum |-> 0,
   page |-> <<>>, cursor |-> 0, received |-> <<>>]

\* an append to the store while the feed is read; other aggregates than the
\* reader's are written among the first MaxInterleave events only
FeedPublish(agg) ==
  /\ ~feed.pending
  /\ eventCounter < MaxFeedEvents
  /\ agg # "A" => eventCounter < MaxInterleave
  /\ Publish(EventOf(Command(0, "c1", agg)))
  /\ UNCHANGED <<pipelineVars, feed, editor, document, api, swr, translator,
               waits, lifecycle>>

\* one GET request with since = String(k), or without the parameter
FeedQuery(documentId, k, absent) ==
  /\ ~feed.pending
  /\ absent => k = 0
  /\ feed' = [feed EXCEPT
       !.pending = TRUE, !.documentId = documentId,
       !.since = IF absent THEN <<>> ELSE ToStr(k),
       !.sinceNum = k,
       !.page = GetEndpoint(documentId, IF absent THEN <<>> ELSE ToStr(k))]
  /\ UNCHANGED <<pipelineVars, storeVars, editor, document, api, swr, translator,
               waits, lifecycle>>

\* the response has been read
FeedResponseRead ==
  /\ feed.pending
  /\ feed' = FeedInit
  /\ UNCHANGED <<pipelineVars, storeVars, editor, document, api, swr, translator,
               waits, lifecycle>>

\* the highest sequence in a page, or the cursor when the page is empty
PageHead(page, cursor) == IF page = <<>> THEN cursor ELSE page[Len(page)].id

\* a reader that pages: it asks with since = the highest sequence it has
\* received so far
PollPage ==
  LET page == GetEndpoint("A", ToStr(feed.cursor))
  IN /\ feed' = [feed EXCEPT !.received = @ \o page,
                             !.cursor = PageHead(page, @)]
     /\ UNCHANGED <<pipelineVars, storeVars, editor, document, api, swr, translator,
               waits, lifecycle>>

\* ------------------------------------------------- BPMN editor component
MaxEdits == 2         \* edits of the local user
MaxRemote == 1        \* remote events applied
MaxSaves == 2         \* presses of Ctrl/Cmd+S

LocalUser == "user"   \* userId: 'user' in captureCommand
Users == {"user", "other"}
RemoteEventTypes == {"shape.create", "shape.move", "connection.create",
                     "shape.delete"}
\* the commands the user's edits put on the command stack
LocalCommands == {"shape.create"}

\* metadata?.lastSyncedCommandIdx as the component got it: absent or a number
MetadataValues ==
  {[defined |-> FALSE, lastSyncedCommandIdx |-> 0]} \cup
  {[defined |-> TRUE, lastSyncedCommandIdx |-> n] : n \in {0, 1}}

\* what is known of the last key press while it is the last thing that
\* happened: no press
NoKey == [pressed |-> FALSE, currentIdx |-> 0, started |-> FALSE]

\* stackIdx, stackSize: the command stack of the modeler (_stackIdx is -1
\* for an empty stack); localEdits, savePresses: what the user did;
\* remoteApplied: the userId of each event applyRemoteEvent executed; afterSave: a save succeeded and no change was
\* captured since; lastKey: the Ctrl/Cmd+S press that has just happened;
\* the rest is the component's own state.
EditorInit ==
  [mounted |-> FALSE,
   metadata |-> [defined |-> FALSE, lastSyncedCommandIdx |-> 0],
   stackIdx |-> -1, stackSize |-> 0,
   lastCommandIdx |-> 0,
   captured |-> <<>>,
   pendingSaves |-> 0,
   saveCalls |-> 0,
   toast |-> "none",
   localEdits |-> 0,
   remoteApplied |-> <<>>,
   savePresses |-> 0,
   afterSave |-> FALSE,
   lastKey |-> NoKey]

\* the bookkeeping of a step that is not a key press: the press is no
\* longer the last thing that happened, and a captured change ends the
\* time after a save
Track(old, new) ==
  [new EXCEPT !.lastKey = NoKey,
              !.afterSave = IF new.lastCommandIdx # old.lastCommandIdx
                              THEN FALSE ELSE old.afterSave]

\* captureCommand(event): nothing without event.context, else the command
\* is built and logged
CaptureCommand(ed, event) ==
  IF ~event.hasContext THEN ed
  ELSE [ed EXCEPT !.captured =
          Append(@, [type |-> event.command, userId |-> LocalUser])]

\* faulty variant: every captured change is saved
ChangedHandlerAutoSave(ed, event) ==
  [CaptureCommand(ed, event) EXCEPT !.saveCalls = @ + 1]
\* modeler.on("commandStack.changed", ...): undo and redo are skipped, any
\* other change is captured and counted
ChangedHandler(ed, event) ==
  IF event.trigger = "undo" \/ event.trigger = "redo" THEN ed
  ELSE [CaptureCommand(ed, event) EXCEPT !.lastCommandIdx = @ + 1]

\* commandStack.execute(command, context): the stack grows by the command
\* and commandStack.changed is fired
Execute(ed, command, hasContext) ==
  ChangedHandler(
    [ed EXCEPT !.stackIdx = @ + 1, !.stackSize = ed.stackIdx + 2],
    [trigger |-> "execute", command |-> command, hasContext |-> hasContext])

\* currentIdx > metadata?.lastSyncedCommandIdx || 0 : the comparison binds
\* tighter than ||, and a comparison with undefined is false
HasUnsavedChanges(currentIdx, metadata) ==
  metadata.defined /\ currentIdx > metadata.lastSyncedCommandIdx

\* the component is mounted with its props and the modeler is created
Mount(metadata) ==
  /\ ~editor.mounted
  /\ editor' = Track(editor, [editor EXCEPT !.mounted = TRUE,
                                            !.metadata = metadata])
  /\ UNCHANGED <<pipelineVars, storeVars, feed, document, api, swr, translator,
               waits, lifecycle>>

\* the user edits the diagram
LocalEdit(command, hasContext) ==
  /\ editor.mounted
  /\ editor.localEdits < MaxEdits
  /\ editor' = Track(editor, [Execute(editor, command, hasContext)
                                EXCEPT !.localEdits = @ + 1])
  /\ UNCHANGED <<pipelineVars, storeVars, feed, document, api, swr, translator,
               waits, lifecycle>>

\* the user undoes a command
Undo ==
  /\ editor.mounted
  /\ editor.stackIdx >= 0
  /\ editor' = Track(editor, ChangedHandler(
       [editor EXCEPT !.stackIdx = @ - 1],
       [trigger |-> "undo", command |-> "none", hasContext |-> FALSE]))
  /\ UNCHANGED <<pipelineVars, storeVars, feed, document, api, swr, translator,
               waits, lifecycle>>

\* the user redoes a command
Redo ==
  /\ editor.mounted
  /\ editor.stackIdx + 1 < editor.stackSize
  /\ editor' = Track(editor, ChangedHandler(
       [editor EXCEPT !.stackIdx = @ + 1],
       [trigger |-> "redo", command |-> "none", hasContext |-> FALSE]))
  /\ UNCHANGED <<pipelineVars, storeVars, feed, document, api, swr, translator,
               waits, lifecycle>>

\* saveHandler: Ctrl/Cmd+S
SaveKey ==
  /\ editor.mounted
  /\ editor.savePresses < MaxSaves
  /\ LET started == HasUnsavedChanges(editor.stackIdx, editor.metadata)
         key == [pressed |-> TRUE, currentIdx |-> editor.stackIdx,
                 started |-> started]
     IN editor' =
          IF started
            THEN [editor EXCEPT !.pendingSaves = @ + 1,
                                !.savePresses = @ + 1, !.lastKey = key]
            ELSE [editor EXCEPT !.toast = "No changes to save",
                                !.savePresses = @ + 1, !.lastKey = key]
  /\ UNCHANGED <<pipelineVars, storeVars, feed, document, api, swr, translator,
               waits, lifecycle>>

\* modeler.saveXML resolves: onSaveContent(xml, false)
SaveXmlResolved ==
  /\ editor.pendingSaves > 0
  /\ editor' = [editor EXCEPT !.pendingSaves = @ - 1, !.saveCalls = @ + 1,
                              !.toast = "Diagram saved to conversation",
                              !.afterSave = TRUE, !.lastKey = NoKey]
  /\ UNCHANGED <<pipelineVars, storeVars, feed, document, api, swr, translator,
               waits, lifecycle>>

\* modeler.saveXML rejects
SaveXmlRejected ==
  /\ editor.pendingSaves > 0
  /\ editor' = Track(editor, [editor EXCEPT !.pendingSaves = @ - 1,
                                            !.toast = "Save failed"])
  /\ UNCHANGED <<pipelineVars, storeVars, feed, document, api, swr, translator,
               waits, lifecycle>>

\* the content effect: the content prop has changed and importXML is
\* called on the modeler; an import that gets as far as clearing the diagram
\* empties the command stack, one that fails shows a toast
ContentChanged(cleared, failed) ==
  /\ editor.mounted
  /\ editor' = Track(editor,
       [editor EXCEPT
          !.stackIdx = IF cleared THEN -1 ELSE @,
          !.stackSize = IF cleared THEN 0 ELSE @,
          !.toast = IF failed THEN "Failed to update diagram" ELSE @])
  /\ UNCHANGED <<pipelineVars, storeVars, feed, document, api, swr,
                 translator, waits, lifecycle>>

\* the command applyRemoteEvent executes for an event type
ExecutedCommand(type) == IF type = "shape.move" THEN "elements.move" ELSE type

\* applyRemoteEvent(event): shape.create, shape.move (when a shape is found)
\* and connection.create are executed on the command stack, whoever the
\* event's user is; other types are ignored. A throw of execute is caught.
ApplyRemoteEvent(event, shapesFound, throws, hasContext) ==
  /\ editor.mounted
  /\ Len(editor.remoteApplied) < MaxRemote
  /\ LET executes ==
           \/ event.type = "shape.create"
           \/ event.type = "shape.move" /\ shapesFound
           \/ event.type = "connection.create"
     IN editor' =
          IF executes /\ ~throws
            THEN Track(editor,
                   [Execute(editor, ExecutedCommand(event.type), hasContext)
                      EXCEPT !.remoteApplied = Append(@, event.userId)])
            ELSE Track(editor, editor)
  /\ UNCHANGED <<pipelineVars, storeVars, feed, document, api, swr, translator,
               waits, lifecycle>>

\* ------------------------------------------------ bpmn document handler
MaxVersions == 2      \* saves of a document

MAX_XML_SIZE == 1024 * 1024
MAX_ELEMENTS == 10000

\* A content is what the handler can tell of an XML string: its length in
\* UTF-16 code units (String.length), its size in bytes as UTF-8 (one to
\* three bytes for a code unit), the number of BPMN elements in it, and
\* whether it includes 'xmlns:bpmn=' and 'bpmn:definitions'.
Lengths == {600, MAX_XML_SIZE, MAX_XML_SIZE + 1}
ElementCounts == {1, MAX_ELEMENTS, MAX_ELEMENTS + 1}
Contents ==
  {[length |-> l, bytes |-> l * k, elementCount |-> n,
    hasXmlns |-> x, hasDefinitions |-> d] :
     l \in Lengths, k \in {1, 2}, n \in ElementCounts,
     x \in BOOLEAN, d \in BOOLEAN}

\* onCreateDocument: the template, one process, well under the limits
CreatedContent ==
  [length |-> 600, bytes |-> 600, elementCount |-> 1,
   hasXmlns |-> TRUE, hasDefinitions |-> TRUE]

\* content, version: the stored document; submitted, versionBefore, error:
\* the last call of onUpdateDocument, what it was given and how it ended
DocumentInit ==
  [content |-> CreatedContent, version |-> 1,
   submitted |-> <<>>, versionBefore |-> 1, error |-> "none"]

\* content.length > MAX_XML_SIZE
TooLarge(content) == content.length > MAX_XML_SIZE

\* !content.includes('xmlns:bpmn=') || !content.includes('bpmn:definitions')
InvalidStructure(content) == ~content.hasXmlns \/ ~content.hasDefinitions

\* onUpdateDocument({document, description}): throws or returns the content
OnUpdateDocument(doc, description) ==
  LET content == IF description # <<>> THEN description[1] ELSE doc.content
  IN IF TooLarge(content)
       THEN [threw |-> TRUE, error |-> "BPMN file too large",
             returned |-> <<>>]
     ELSE IF InvalidStructure(content)
       THEN [threw |-> TRUE, error |-> "Invalid BPMN structure",
             returned |-> <<>>]
     ELSE [threw |-> FALSE, error |-> "none", returned |-> <<content>>]

\* a save through the document handler: the content onUpdateDocument
\* returns is stored as the next version, a throw stores nothing
UpdateDocument(description) ==
  /\ document.version <= MaxVersions
  /\ LET result == OnUpdateDocument(document, description)
         content == IF description # <<>> THEN description[1]
                    ELSE document.content
     IN document' =
          IF result.threw
            THEN [document EXCEPT !.submitted = <<content>>,
                                  !.versionBefore = document.version,
                                  !.error = result.error]
            ELSE [content |-> result.returned[1],
                  version |-> document.version + 1,
                  submitted |-> <<content>>,
                  versionBefore |-> document.version,
                  error |-> "none"]
  /\ UNCHANGED <<pipelineVars, storeVars, feed, editor, api, swr, translator,
               waits, lifecycle>>

\* ------------------------------------------- POST /api/bpmn/commands
MaxRequests == 2      \* requests to the endpoint in one behaviour
MaxBatch == 2         \* commands in a batch that is within BATCH_SIZE

BATCH_SIZE == 50

SessionUser == "u1"
\* the commands a request can carry: sourceExists and targetExists are what
\* checkElementExists answers for the command's sourceId and targetId
ApiCommand(userId, type, sourceExists, targetExists) ==
  [id |-> "c1", userId |-> userId, type |-> type,
   sourceExists |-> sourceExists, targetExists |-> targetExists]
ApiCommands ==
  {ApiCommand("u1", "createElement", TRUE, TRUE),
   ApiCommand("u1", "connectElements", TRUE, TRUE),
   ApiCommand("u1", "connectElements", FALSE, TRUE),
   ApiCommand("u2", "createElement", TRUE, TRUE)}

\* the `commands` arrays: up to MaxBatch commands, or one over BATCH_SIZE
Batches ==
  UNION {[1..n -> ApiCommands] : n \in 0..MaxBatch} \cup
  {[k \in 1..(BATCH_SIZE + 1) |->
      ApiCommand("u1", "createElement", TRUE, TRUE)]}

\* a request: the session it comes with and its body
Requests ==
  {[session |-> u, documentId |-> "A", batch |-> TRUE, commands |-> b] :
     u \in {"none", SessionUser}, b \in Batches} \cup
  {[session |-> u, documentId |-> "A", batch |-> FALSE, commands |-> <<c>>] :
     u \in {"none", SessionUser}, c \in ApiCommands}

\* validateCommand(command): the ValidationResult its promise resolves to
ValidateCommand(command) ==
  IF command.type = "connectElements" /\
       (~command.sourceExists \/ ~command.targetExists)
    THEN [valid |-> FALSE, error |-> "Element not found"]
    ELSE [valid |-> TRUE, error |-> "none"]

\* the value of the call validateCommand(cmd) where the handler tests it:
\* the function is async and is not awaited, so the value is the promise
ValidateCommandCall(command) ==
  [kind |-> "object", resolvesTo |-> ValidateCommand(command)]

\* the truth value JavaScript gives a value under `!`
Truthy(v) == v.kind = "object" \/ (v.kind = "boolean" /\ v.value)

\* the event the handler hands to publish
ApiEvent(documentId, cmd) == [aggregateId |-> documentId, data |-> cmd]

\* The handler from a point of its code to its next await of publish or to
\* its return: pc "publish" with the command to publish first in `rest`,
\* or pc "done" with the status of the response.
RECURSIVE BatchLoop(_, _)
BatchLoop(rest, results) ==
  IF rest = <<>>
    THEN [pc |-> "done", status |-> 200, rest |-> <<>>, results |-> results]
  ELSE IF Head(rest).userId # SessionUser
    THEN [pc |-> "done", status |-> 403, rest |-> <<>>, results |-> <<>>]
  ELSE IF ~Truthy(ValidateCommandCall(Head(rest)))
    THEN BatchLoop(Tail(rest), results)
  ELSE [pc |-> "publish", status |-> 0, rest |-> rest, results |-> results]

\* faulty variant: the userId of the command is not compared
SingleCommandAnyUser(command) ==
  IF ~Truthy(ValidateCommandCall(command))
    THEN [pc |-> "done", status |-> 400, rest |-> <<>>, results |-> <<>>]
  ELSE [pc |-> "publish", status |-> 0, rest |-> <<command>>,
        results |-> <<>>]
\* the single command branch of POST
SingleCommand(command) ==
  IF command.userId # SessionUser
    THEN [pc |-> "done", status |-> 403, rest |-> <<>>, results |-> <<>>]
  ELSE IF ~Truthy(ValidateCommandCall(command))
    THEN [pc |-> "done", status |-> 400, rest |-> <<>>, results |-> <<>>]
  ELSE [pc |-> "publish", status |-> 0, rest |-> <<command>>,
        results |-> <<>>]

\* POST(request) up to its first publish
HandlerStart(request) ==
  IF request.session = "none"
    THEN [pc |-> "done", status |-> 401, rest |-> <<>>, results |-> <<>>]
  ELSE IF request.batch
    THEN IF Len(request.commands) > BATCH_SIZE
           THEN [pc |-> "done", status |-> 400, rest |-> <<>>,
                 results |-> <<>>]
           ELSE BatchLoop(request.commands, <<>>)
  ELSE SingleCommand(request.commands[1])

\* the call of eventStore.publish a handler that stops at "publish" makes
HandlerPublish(h, documentId) ==
  IF h.pc = "publish"
    THEN Publish(ApiEvent(documentId, Head(h.rest)))
    ELSE UNCHANGED storeVars

\* what a handler keeps across its awaits besides its place in the code:
\* the request's session and documentId and whether it is a batch; eventId:
\* the id of the event its pending publish stored; appended: the userId of
\* each command it has published
HandlerContext(h, batch, documentId, session, appended) ==
  h @@ [batch |-> batch, documentId |-> documentId, session |-> session,
        eventId |-> IF h.pc = "publish" THEN NextEventId(eventCounter) ELSE 0,
        appended |-> IF h.pc = "publish"
                       THEN Append(appended, Head(h.rest).userId)
                       ELSE appended]

\* a request arrives and its handler runs to its first await of publish
Post(request) ==
  /\ Len(api) < MaxRequests
  /\ LET h == HandlerStart(request)
     IN /\ api' = Append(api, HandlerContext(h, request.batch,
                                             request.documentId,
                                             request.session, <<>>))
        /\ HandlerPublish(h, request.documentId)
  /\ UNCHANGED <<pipelineVars, feed, editor, document, swr, translator,
               waits, lifecycle>>

\* publish has returned the stored event: its id is kept and the handler
\* goes on to the next command or to its response
PublishReturned(k) ==
  /\ k \in 1..Len(api)
  /\ api[k].pc = "publish"
  /\ LET results == Append(api[k].results, api[k].eventId)
         h == IF api[k].batch
                THEN BatchLoop(Tail(api[k].rest), results)
                ELSE [pc |-> "done", status |-> 200, rest |-> <<>>,
                      results |-> results]
     IN /\ api' = [api EXCEPT ![k] =
                      HandlerContext(h, api[k].batch, api[k].documentId,
                                     api[k].session, api[k].appended)]
        /\ HandlerPublish(h, api[k].documentId)
  /\ UNCHANGED <<pipelineVars, feed, editor, document, swr, translator,
               waits, lifecycle>>

\* --------------------------------------------------- useArtifactPolling
MaxPolls == 5         \* fetches started in one behaviour
MaxSnapshotVersion == 2

\* data, error: what useSWR returns (data <<>> is undefined); inFlight: the
\* fetcher is at its await; logged: the console.error calls; updates: the
\* onUpdate calls; last: how the last getArtifactSnapshot ended.
SwrInit ==
  [enabled |-> FALSE, useSDK |-> FALSE,
   data |-> <<>>, error |-> FALSE, inFlight |-> FALSE,
   polls |-> 0, logged |-> 0, updates |-> 0, last |-> "none"]

\* faulty variant: the catch block logs and returns nothing
FetcherSwallows(settled) ==
  IF settled.ok
    THEN [threw |-> FALSE, value |-> <<settled.version>>, logged |-> 0]
    ELSE [threw |-> FALSE, value |-> <<>>, logged |-> 1]
\* the fetcher once getArtifactSnapshot has settled: the snapshot is
\* returned, a failure is logged and thrown again
Fetcher(settled) ==
  IF settled.ok
    THEN [threw |-> FALSE, value |-> <<settled.version>>, logged |-> 0]
    ELSE [threw |-> TRUE, value |-> <<>>, logged |-> 1]

\* isLoading of useSWR: a request is under way and no data is loaded yet
IsLoading(s) == s.inFlight /\ s.data = <<>>

\* what the client renders
View(s) ==
  IF s.useSDK /\ IsLoading(s) THEN "Loading diagram..."
  ELSE IF s.useSDK /\ s.error THEN "Failed to load diagram"
  ELSE "diagram"

\* the hook is used with an artifact id
StartPolling(useSDK) ==
  /\ ~swr.enabled
  /\ swr' = [swr EXCEPT !.enabled = TRUE, !.useSDK = useSDK]
  /\ UNCHANGED <<pipelineVars, storeVars, feed, editor, document, api, translator,
               waits, lifecycle>>

\* a revalidation starts: the first one, a refreshInterval tick, a retry
\* after an error, or the Retry button (mutate)
StartFetch ==
  /\ swr.enabled
  /\ ~swr.inFlight
  /\ swr.polls < MaxPolls
  /\ swr' = [swr EXCEPT !.inFlight = TRUE, !.polls = @ + 1]
  /\ UNCHANGED <<pipelineVars, storeVars, feed, editor, document, api, translator,
               waits, lifecycle>>

\* getArtifactSnapshot settles and the fetcher ends: useSWR keeps the data
\* and clears the error and calls onSuccess, or keeps the error
FetchSettled(settled) ==
  /\ swr.inFlight
  /\ LET result == Fetcher(settled)
     IN swr' =
          IF result.threw
            THEN [swr EXCEPT !.inFlight = FALSE, !.error = TRUE,
                             !.logged = @ + result.logged,
                             !.last = "failed"]
            ELSE [swr EXCEPT !.inFlight = FALSE, !.error = FALSE,
                             !.data = result.value,
                             !.logged = @ + result.logged,
                             !.updates =
                               IF result.value # <<>> THEN @ + 1 ELSE @,
                             !.last =
                               IF settled.ok THEN "ok" ELSE "failed"]
  /\ UNCHANGED <<pipelineVars, storeVars, feed, editor, document, api, translator,
               waits, lifecycle>>

\* --------------------------------------------------- BpmnEventTranslator
MaxTranslations == 2  \* calls of translateEvent in one behaviour

SupportedKinds == {"shape.create", "shape.move", "element.updateLabel",
                   "connection.create", "shape.delete"}
IgnoredKinds == {"connection.updateWaypoints", "canvas.resize",
                 "element.rotate"}
UnknownKinds == {"shape.resize"}
Kinds == SupportedKinds \cup IgnoredKinds \cup UnknownKinds

ShapeTypes == {"bpmn:Task", "bpmn:UserTask", "bpmn:ExclusiveGateway",
               "bpmn:StartEvent", "bpmn:DataObject"}
ConnectionTypes == {"bpmn:SequenceFlow", "bpmn:MessageFlow", "bpmn:Group"}

\* businessObject.$type as the event carries it ("undefined": no $type)
BusinessObjectTypes == {"undefined", "bpmn:UserTask", "bpmn:SendTask"}
\* businessObject.name ("" stands for a missing name as well)
ShapeNames == {"", "Review"}

\* the events of the editing surface, each with the context its kind has:
\* shapeType is shape.type, boType is shape.businessObject.$type
TranslatorEvents ==
  {[command |-> k, shapeType |-> t, connectionType |-> c,
    id |-> "Task_1", x |-> 100, y |-> 50, name |-> n, boType |-> b] :
     k \in Kinds, t \in ShapeTypes, c \in ConnectionTypes,
     n \in ShapeNames, b \in BusinessObjectTypes}

\* typeMap[type] || BpmnElementType.UNSPECIFIED
MapBpmnJsType(type) ==
  CASE type \in {"bpmn:Task", "bpmn:UserTask", "bpmn:ServiceTask",
                 "bpmn:ScriptTask"} -> "TASK"
    [] type = "bpmn:ExclusiveGateway" -> "EXCLUSIVE_GATEWAY"
    [] type = "bpmn:ParallelGateway" -> "PARALLEL_GATEWAY"
    [] type = "bpmn:InclusiveGateway" -> "INCLUSIVE_GATEWAY"
    [] type = "bpmn:EventBasedGateway" -> "EVENT_BASED_GATEWAY"
    [] type = "bpmn:StartEvent" -> "START_EVENT"
    [] type = "bpmn:EndEvent" -> "END_EVENT"
    [] type = "bpmn:IntermediateCatchEvent" -> "INTERMEDIATE_CATCH_EVENT"
    [] type = "bpmn:IntermediateThrowEvent" -> "INTERMEDIATE_THROW_EVENT"
    [] type = "bpmn:BoundaryEvent" -> "BOUNDARY_EVENT"
    [] type = "bpmn:SubProcess" -> "SUB_PROCESS"
    [] type = "bpmn:Pool" -> "POOL"
    [] type = "bpmn:Lane" -> "LANE"
    [] OTHER -> "UNSPECIFIED"

\* typeMap[type] || BpmnConnectionType.UNSPECIFIED
MapConnectionType(type) ==
  CASE type = "bpmn:SequenceFlow" -> "SEQUENCE_FLOW"
    [] type = "bpmn:MessageFlow" -> "MESSAGE_FLOW"
    [] type = "bpmn:Association" -> "ASSOCIATION"
    [] type = "bpmn:DataAssociation" -> "DATA_ASSOCIATION"
    [] OTHER -> "UNSPECIFIED"

\* getTaskType(businessObject): taskTypeMap[businessObject.$type] || UNSPECIFIED
GetTaskType(boType) ==
  CASE boType = "bpmn:UserTask" -> "USER_TASK"
    [] boType = "bpmn:ServiceTask" -> "SERVICE_TASK"
    [] boType = "bpmn:ScriptTask" -> "SCRIPT_TASK"
    [] boType = "bpmn:SendTask" -> "SEND_TASK"
    [] boType = "bpmn:ReceiveTask" -> "RECEIVE_TASK"
    [] boType = "bpmn:ManualTask" -> "MANUAL_TASK"
    [] boType = "bpmn:BusinessRuleTask" -> "BUSINESS_RULE_TASK"
    [] OTHER -> "UNSPECIFIED"

\* getGatewayType(elementType)
GetGatewayType(elementType) ==
  CASE elementType = "EXCLUSIVE_GATEWAY" -> "EXCLUSIVE"
    [] elementType = "PARALLEL_GATEWAY" -> "PARALLEL"
    [] elementType = "INCLUSIVE_GATEWAY" -> "INCLUSIVE"
    [] elementType = "EVENT_BASED_GATEWAY" -> "EVENT_BASED"
    [] elementType = "COMPLEX_GATEWAY" -> "COMPLEX"
    [] OTHER -> "UNSPECIFIED"

\* getElementProperties(shape): taskProps for a task, gatewayProps for an
\* exclusive, parallel or inclusive gateway, {} for anything else
GetElementProperties(event) ==
  LET elementType == MapBpmnJsType(event.shapeType)
  IN IF elementType = "TASK"
       THEN [props |-> "taskProps", taskType |-> GetTaskType(event.boType),
             gatewayType |-> "none"]
     ELSE IF elementType \in {"EXCLUSIVE_GATEWAY", "PARALLEL_GATEWAY",
                              "INCLUSIVE_GATEWAY"}
       THEN [props |-> "gatewayProps", taskType |-> "none",
             gatewayType |-> GetGatewayType(elementType)]
     ELSE [props |-> "none", taskType |-> "none", gatewayType |-> "none"]

\* the element translateShapeCreate hands to createBpmnElement
CreatedElement(event) ==
  [id |-> event.id,
   type |-> MapBpmnJsType(event.shapeType),
   name |-> event.name,
   position |-> [x |-> event.x, y |-> event.y],
   properties |-> GetElementProperties(event)]

\* the Command a BPMNCommandBuilder method builds
BuiltCommand(type, detail) ==
  [threw |-> FALSE, command |-> <<[type |-> type, detail |-> detail]>>,
   logs |-> 0]
\* return null, after a console.log or console.warn
ReturnsNull == [threw |-> FALSE, command |-> <<>>, logs |-> 1]
\* the call ends with an exception
Throws == [threw |-> TRUE, command |-> <<>>, logs |-> 0]

\* the switch of translateEvent on event.command
TranslateSwitch(event) ==
  CASE event.command = "shape.create" ->
         BuiltCommand("createBpmnElement", CreatedElement(event))
    [] event.command = "shape.move" ->
         BuiltCommand("moveBpmnElement", "position")
    [] event.command = "element.updateLabel" ->
         BuiltCommand("updateBpmnElement", "name")
    [] event.command = "connection.create" ->
         BuiltCommand("connectBpmnElements",
                      MapConnectionType(event.connectionType))
    [] event.command = "shape.delete" ->
         BuiltCommand("deleteBpmnElement", "id")
    [] event.command \in IgnoredKinds -> ReturnsNull
    [] OTHER -> ReturnsNull

\* this.createBaseCommand(): the class has no member of that name, so the
\* call is a call of undefined and throws a TypeError
CreateBaseCommandThrows == TRUE

\* translateEvent(event): the base command is asked for first, then the
\* switch runs
TranslateEvent(event) ==
  IF CreateBaseCommandThrows THEN Throws ELSE TranslateSwitch(event)

TranslatorInit == [calls |-> 0, event |-> <<>>, result |-> ReturnsNull]

\* a call of translateEvent
Translate(event) ==
  /\ translator.calls < MaxTranslations
  /\ translator' = [calls |-> translator.calls + 1,
                    event |-> <<event>>,
                    result |-> TranslateEvent(event)]
  /\ UNCHANGED <<pipelineVars, storeVars, feed, editor, document, api, swr,
               waits, lifecycle>>

\* ------------------------------------------------ backoff(retryCount)
MaxRetryCount == 10   \* the largest retryCount backoff is called with

\* the last two calls of backoff, each with its argument and its delay
WaitsInit == [prev |-> <<>>, last |-> <<>>]

\* backoff(retryCount): the delay the timer is set to
Backoff(n) ==
  /\ waits' = [prev |-> waits.last,
               last |-> <<[retryCount |-> n, delay |-> BackoffDelay(n)]>>]
  /\ UNCHANGED <<pipelineVars, storeVars, feed, editor, document, api, swr,
                 translator, lifecycle>>

\* ------------------------------------------- BPMN editor: mount, unmount
MaxMounts == 2        \* instances of the component in one behaviour
MaxEffectRuns == 2    \* times React runs the init effect again on an instance

Instances == 1..MaxMounts
NoModeler == <<0, 0>>

\* instance, mounted: the component instance on the page; moduleLoaded: the
\* module variable BpmnModeler is set; pending[i]: initModeler calls of
\* instance i waiting for the dynamic import; ref[i]: modelerRef.current of
\* instance i; made[i]: modelers created for i; live: the modelers not
\* destroyed; listeners: the modelers whose saveHandler is a keydown listener
\* of window; globalHandler: the modeler of window.__bpmnSaveHandler;
\* hasCleanup: the last run of the effect returned its cleanup function.
LifecycleInit ==
  [instance |-> 0, mounted |-> FALSE, moduleLoaded |-> FALSE,
   pending |-> [i \in Instances |-> 0],
   ref |-> [i \in Instances |-> NoModeler],
   made |-> [i \in Instances |-> 0],
   live |-> {}, listeners |-> {}, globalHandler |-> NoModeler,
   hasCleanup |-> FALSE, effectRuns |-> 0]

\* initModeler from `new BpmnModeler` on: the modeler is created and kept in
\* modelerRef, its saveHandler is added to window and stored in
\* window.__bpmnSaveHandler
CreateModeler(lc, i) ==
  LET modeler == <<i, lc.made[i] + 1>>
  IN [lc EXCEPT !.made[i] = @ + 1,
                !.ref[i] = modeler,
                !.live = @ \cup {modeler},
                !.listeners = @ \cup {modeler},
                !.globalHandler = modeler]

\* the cleanup function of the effect: the handler window.__bpmnSaveHandler
\* names is removed, the modeler modelerRef holds is destroyed
Cleanup(lc, i) ==
  [lc EXCEPT
     !.listeners = IF lc.globalHandler # NoModeler
                     THEN @ \ {lc.globalHandler} ELSE @,
     !.globalHandler = NoModeler,
     !.live = IF lc.ref[i] # NoModeler THEN @ \ {lc.ref[i]} ELSE @,
     !.ref[i] = NoModeler]

\* the init effect: nothing (and no cleanup) when modelerRef is set, else
\* initModeler is called, which waits for the import unless BpmnModeler is
\* loaded already
Effect(lc, i) ==
  IF lc.ref[i] # NoModeler THEN [lc EXCEPT !.hasCleanup = FALSE]
  ELSE [(IF lc.moduleLoaded THEN CreateModeler(lc, i)
         ELSE [lc EXCEPT !.pending[i] = @ + 1]) EXCEPT !.hasCleanup = TRUE]

\* the cleanup React calls, when the last run of the effect returned one
RunCleanup(lc, i) == IF lc.hasCleanup THEN Cleanup(lc, i) ELSE lc

\* a new instance of the component is mounted and its effect runs
MountComponent ==
  /\ ~lifecycle.mounted
  /\ lifecycle.instance < MaxMounts
  /\ lifecycle' =
       Effect([lifecycle EXCEPT !.instance = @ + 1, !.mounted = TRUE,
                                !.hasCleanup = FALSE, !.effectRuns = 0],
              lifecycle.instance + 1)
  /\ UNCHANGED <<pipelineVars, storeVars, feed, editor, document, api, swr,
                 translator, waits>>

\* React runs the effect of the mounted instance again: cleanup, then effect
EffectRerun ==
  /\ lifecycle.mounted
  /\ lifecycle.effectRuns < MaxEffectRuns
  /\ lifecycle' =
       Effect([RunCleanup(lifecycle, lifecycle.instance)
                 EXCEPT !.effectRuns = @ + 1],
              lifecycle.instance)
  /\ UNCHANGED <<pipelineVars, storeVars, feed, editor, document, api, swr,
                 translator, waits>>

\* the dynamic import of an initModeler call of instance i resolves
ImportResolved(i) ==
  /\ lifecycle.pending[i] > 0
  /\ lifecycle' =
       CreateModeler([lifecycle EXCEPT !.pending[i] = @ - 1,
                                       !.moduleLoaded = TRUE], i)
  /\ UNCHANGED <<pipelineVars, storeVars, feed, editor, document, api, swr,
                 translator, waits>>

\* the dynamic import rejects: initModeler throws
ImportRejected(i) ==
  /\ lifecycle.pending[i] > 0
  /\ lifecycle' = [lifecycle EXCEPT !.pending[i] = @ - 1]
  /\ UNCHANGED <<pipelineVars, storeVars, feed, editor, document, api, swr,
                 translator, waits>>

\* the mounted instance is unmounted
Unmount ==
  /\ lifecycle.mounted
  /\ lifecycle' =
       [RunCleanup(lifecycle, lifecycle.instance)
          EXCEPT !.mounted = FALSE, !.hasCleanup = FALSE]
  /\ UNCHANGED <<pipelineVars, storeVars, feed, editor, document, api, swr,
                 translator, waits>>

\* ------------------------------------------------------- specification
Init ==
  /\ queue = <<>>
  /\ processing = FALSE
  /\ retryCount = <<>>
  /\ loops = <<>>
  /\ direct = {}
  /\ events = [a \in Aggregates |-> <<>>]
  /\ eventCounter = 0
  /\ console = <<>>
  /\ enqueueResult = [u \in Uids |-> "none"]
  /\ nextUid = 1
  /\ enqueueOrder = <<>>
  /\ attempts = [u \in Uids |-> 0]
  /\ outcome = [u \in Uids |-> "none"]
  /\ feed = FeedInit
  /\ editor = EditorInit
  /\ document = DocumentInit
  /\ api = <<>>
  /\ swr = SwrInit
  /\ translator = TranslatorInit
  /\ waits = WaitsInit
  /\ lifecycle = LifecycleInit

Next ==
  \/ \E id \in CommandIds, agg \in Aggregates : Enqueue(id, agg)
  \/ \E i \in 1..Len(loops) : ServerPublish(i)
  \/ \E i \in 1..Len(loops) : ExecResolve(i)
  \/ \E i \in 1..Len(loops) : ExecReject(i)
  \/ \E i \in 1..Len(loops) : BackoffDone(i)
  \/ \E agg \in Aggregates : DirectSend(agg)
  \/ \E r \in direct : DirectPublish(r)
  \/ \E r \in direct : DirectReturn(r)

Spec == Init /\ [][Next]_vars

\* the feed queried with arbitrary since values
NextFeed ==
  \/ \E agg \in Aggregates : FeedPublish(agg)
  \/ \E d \in Aggregates, k \in 0..(eventCounter + 1), absent \in BOOLEAN :
       FeedQuery(d, k, absent)
  \/ FeedResponseRead

SpecFeed == Init /\ [][NextFeed]_vars

\* the feed read page by page while the store is appended to
NextPaging ==
  \/ \E agg \in Aggregates : FeedPublish(agg)
  \/ PollPage

SpecPaging == Init /\ [][NextPaging]_vars /\ WF_vars(PollPage)

\* the editor component
NextEditor ==
  \/ \E metadata \in MetadataValues : Mount(metadata)
  \/ \E command \in LocalCommands, hasContext \in BOOLEAN :
       LocalEdit(command, hasContext)
  \/ Undo
  \/ Redo
  \/ SaveKey
  \/ SaveXmlResolved
  \/ SaveXmlRejected
  \/ \E cleared, failed \in BOOLEAN : ContentChanged(cleared, failed)
  \/ \E type \in RemoteEventTypes, user \in Users,
        shapesFound, throws, hasContext \in BOOLEAN :
       ApplyRemoteEvent([type |-> type, userId |-> user],
                        shapesFound, throws, hasContext)

SpecEditor == Init /\ [][NextEditor]_vars

\* saves through the bpmn document handler
NextSave ==
  \E description \in {<<>>} \cup {<<c>> : c \in Contents} :
    UpdateDocument(description)

SpecSave == Init /\ [][NextSave]_vars

\* the command endpoint and the store behind it
NextApi ==
  \/ \E request \in Requests : Post(request)
  \/ \E k \in 1..MaxRequests : PublishReturned(k)

SpecApi == Init /\ [][NextApi]_vars

\* polling of the artifact snapshot
NextPolling ==
  \/ \E useSDK \in BOOLEAN : StartPolling(useSDK)
  \/ StartFetch
  \/ \E ok \in BOOLEAN, version \in 1..MaxSnapshotVersion :
       FetchSettled([ok |-> ok, version |-> version])

SpecPolling == Init /\ [][NextPolling]_vars

\* the translator
NextTranslate == \E event \in TranslatorEvents : Translate(event)

SpecTranslate == Init /\ [][NextTranslate]_vars

\* calls of backoff
NextBackoff == \E n \in 0..MaxRetryCount : Backoff(n)

SpecBackoff == Init /\ [][NextBackoff]_vars

\* mounting and unmounting of the editor
NextLifecycle ==
  \/ MountComponent
  \/ EffectRerun
  \/ \E i \in Instances : ImportResolved(i)
  \/ \E i \in Instances : ImportRejected(i)
  \/ Unmount

SpecLifecycle == Init /\ [][NextLifecycle]_vars

\* ------------------------------------------------------------ properties
\* u was handed to enqueue before v
EnqueuedBefore(u, v) ==
  \E i, j \in 1..Len(enqueueOrder) :
    i < j /\ enqueueOrder[i] = u /\ enqueueOrder[j] = v

Finished(u) == outcome[u] \in {"delivered", "dropped"}

\* the requests that are in flight: those of the queue and of captureCommand
InFlight ==
  {[uid |-> loops[i].command.uid,
    aggregateId |-> loops[i].command.aggregateId,
    expectedSequence |-> loops[i].expectedSequence,
    net |-> loops[i].net] : i \in {k \in 1..Len(loops) : loops[k].pc = "exec"}}
  \cup
  {[uid |-> r.command.uid,
    aggregateId |-> r.command.aggregateId,
    expectedSequence |-> r.expectedSequence,
    net |-> r.net] : r \in direct}

\* C1: of two commands of one aggregate enqueued in the order u, v, every
\* stored event of u has a strictly smaller event id than every stored
\* event of v, whatever deliveries failed, were retried or were enqueued
\* during a delivery or a backoff.
C1_EnqueueOrderIsEventOrder ==
  \A a \in Aggregates : \A i, j \in 1..Len(events[a]) :
    EnqueuedBefore(events[a][i].data.uid, events[a][j].data.uid)
      => events[a][i].id < events[a][j].id

\* C1 witness: both commands are stored, the earlier one after a retry.
C1_Witness ==
  \E a \in Aggregates : \E i, j \in 1..Len(events[a]) :
    /\ EnqueuedBefore(events[a][i].data.uid, events[a][j].data.uid)
    /\ attempts[events[a][i].data.uid] >= 2

\* C2: no command is passed to executeCommand more than maxRetries + 1
\* times; a dropped command is neither in the pending queue nor held by a
\* delivery loop, so it is never attempted again.
C2_RetryBound ==
  \A u \in Uids :
    /\ attempts[u] <= maxRetries + 1
    /\ outcome[u] = "dropped" =>
         /\ \A k \in 1..Len(queue) : queue[k].uid # u
         /\ \A i \in 1..Len(loops) : loops[i].command.uid # u

\* C2 witness: a command was dropped after maxRetries + 1 failed attempts.
C2_Witness ==
  \E u \in Uids : outcome[u] = "dropped" /\ attempts[u] = maxRetries + 1

\* C3: during a backoff the failed command is the head of the pending
\* queue, and a command is only passed to executeCommand when every
\* command enqueued before it has been delivered or dropped.
C3_RetryKeepsFront ==
  \A i \in 1..Len(loops) :
    /\ loops[i].pc = "backoff" =>
         Len(queue) > 0 /\ queue[1] = loops[i].command
    /\ loops[i].pc = "exec" =>
         \A u \in Uids :
           EnqueuedBefore(u, loops[i].command.uid) => Finished(u)

\* C3 witness: a command is being retried while a later command waits.
C3_Witness ==
  \E i \in 1..Len(loops) :
    /\ loops[i].pc = "exec"
    /\ attempts[loops[i].command.uid] >= 2
    /\ \E k \in 1..Len(queue) :
         EnqueuedBefore(loops[i].command.uid, queue[k].uid)

\* C4: at most one process() invocation is active and at most one
\* executeCommand call of the queue is in flight, and processing is set
\* exactly while an invocation is active.
C4_SingleLoop ==
  /\ Len(loops) <= 1
  /\ Cardinality({i \in 1..Len(loops) : loops[i].pc = "exec"}) <= 1
  /\ processing <=> (Len(loops) = 1)

\* C4 witness: enqueue was called while a delivery was in flight.
C4_Witness ==
  /\ Len(loops) = 1
  /\ loops[1].pc = "exec"
  /\ Len(queue) > 0

\* C5: a command appended twice is stored as one event only (the second
\* append is answered from the deduplication, without a new event).
C5_AppendIsIdempotent ==
  \A a \in Aggregates : \A i, j \in 1..Len(events[a]) :
    i # j => events[a][i].data.uid # events[a][j].data.uid

\* C6: of two appends to one aggregate that are in flight together with
\* the same expectedSequence, at most one is appended (the other gets
\* ConcurrencyConflict and leaves the log unchanged).
C6_OneWinnerPerExpectedSequence ==
  \A r1, r2 \in InFlight :
    ( /\ r1.uid # r2.uid
      /\ r1.aggregateId = r2.aggregateId
      /\ r1.expectedSequence = r2.expectedSequence )
    => ~(r1.net = "appended" /\ r2.net = "appended")

\* C7 as stated: per aggregate the event ids are strictly increasing in
\* append order and consecutive events differ by exactly 1.
C7_GaplessPerAggregate ==
  \A a \in Aggregates : \A i \in 1..Len(events[a]) :
    i > 1 => events[a][i].id = events[a][i - 1].id + 1

\* the ids of all stored events
EventIds == UNION {{events[a][i].id : i \in 1..Len(events[a])} : a \in Aggregates}

\* the number of stored events
RECURSIVE SumLen(_)
SumLen(S) ==
  IF S = {} THEN 0
  ELSE LET a == CHOOSE x \in S : TRUE IN Len(events[a]) + SumLen(S \ {a})

\* C7 amended: per aggregate the event ids are pairwise distinct and
\* strictly increasing in append order; they are gapless over the whole
\* store (the ids of all events are exactly 1..eventCounter, each used
\* once), not per aggregate.
C7_IncreasingGloballyGapless ==
  /\ \A a \in Aggregates : \A i, j \in 1..Len(events[a]) :
       i < j => events[a][i].id < events[a][j].id
  /\ EventIds = 1..eventCounter
  /\ SumLen(Aggregates) = eventCounter

\* C7 witness: appends to two aggregates interleaved, leaving a gap in one.
C7_Witness ==
  \E a \in Aggregates : \E i \in 1..Len(events[a]) :
    i > 1 /\ events[a][i].id > events[a][i - 1].id + 1

\* C9: every dropped command was signalled as permanently failed. The
\* queue has no observer interface (getQueueLength only) and console.error
\* logs the error, not the command, so the promise of enqueue is the one
\* channel that could carry the signal.
C9_DropIsSignalled ==
  \A u \in Uids : outcome[u] = "dropped" => enqueueResult[u] = "rejected"

\* C10: a command waiting in the queue is never held up by the backoff of
\* a command of another aggregate.
C10_AggregatesIndependent ==
  \A i \in 1..Len(loops) :
    loops[i].pc = "backoff" =>
      \A k \in 1..Len(queue) :
        queue[k].aggregateId = loops[i].command.aggregateId

\* C11: a page holds only events of the asked aggregate with a sequence
\* greater than since, in increasing sequence order, at most PageLimit of
\* them, and it skips none: an event after since that is not in the page
\* lies after the last event of a full page.
C11_PageIsEarliestAfterSince ==
  feed.pending =>
    LET page == feed.page
        log == events[feed.documentId]
    IN /\ Len(page) <= 100
       /\ \A i \in 1..Len(page) :
            /\ page[i].aggregateId = feed.documentId
            /\ page[i].id > feed.sinceNum
       /\ \A i, j \in 1..Len(page) : i < j => page[i].id < page[j].id
       /\ \A n \in 1..Len(log) :
            log[n].id > feed.sinceNum =>
              \/ \E i \in 1..Len(page) : page[i] = log[n]
              \/ Len(page) = 100 /\ log[n].id > page[100].id

\* C11 witness: a full page was cut out of a longer log, after a positive
\* since, with an event of another aggregate in the store.
C11_Witness ==
  /\ feed.pending
  /\ feed.sinceNum > 0
  /\ Len(feed.page) = 100
  /\ \E n \in 1..Len(events[feed.documentId]) :
       events[feed.documentId][n].id > feed.page[100].id
  /\ \E a \in Aggregates : a # feed.documentId /\ Len(events[a]) > 0

IsPrefix(a, b) == Len(a) <= Len(b) /\ a = SubSeq(b, 1, Len(a))

\* C12: what the paging reader has received is always a prefix of the
\* aggregate's log (no event skipped, none twice), also while appends
\* interleave with its calls; and as long as it lacks an event its next
\* call returns a non-empty page that starts with the first event it
\* lacks, so that it has the whole log once the appends stop.
C12_PagingCatchesUp ==
  LET log == events["A"]
      next == GetEndpoint("A", ToStr(feed.cursor))
  IN /\ IsPrefix(feed.received, log)
     /\ feed.received # log =>
          next # <<>> /\ next[1] = log[Len(feed.received) + 1]
     /\ feed.received = log => next = <<>>

\* C12 witness: the reader has the whole log after more than one page, the
\* log having grown between its calls and holding a gap.
C12_Witness ==
  /\ Len(feed.received) > 100
  /\ feed.received = events["A"]
  /\ events["A"][1].id > 1

\* C13: onSaveContent is only called for a Ctrl/Cmd+S press: the calls made
\* and the saves under way never outnumber the presses, however many edits
\* were captured.
C13_EditsNeverSave ==
  editor.saveCalls + editor.pendingSaves <= editor.savePresses

\* C13 witness: edits were captured and counted, and nothing was saved.
C13_Witness ==
  /\ editor.localEdits >= 1
  /\ Len(editor.captured) >= 1
  /\ editor.lastCommandIdx >= 1
  /\ editor.savePresses = 0
  /\ editor.saveCalls = 0

\* C17: no event of the local user is applied by applyRemoteEvent.
C17_OwnEventsNotApplied ==
  \A i \in 1..Len(editor.remoteApplied) :
    editor.remoteApplied[i] # LocalUser

\* C18: the commandStack.changed handler fires for local edits only: the
\* changes it counted and the commands it captured never outnumber the
\* edits of the local user.
C18_RemoteApplyNotCaptured ==
  /\ editor.lastCommandIdx <= editor.localEdits
  /\ Len(editor.captured) <= editor.localEdits

\* C14: a save of a content with more than 10,000 elements is rejected and
\* leaves the version as it was.
C14_TooManyElementsRejected ==
  (document.submitted # <<>> /\
     document.submitted[1].elementCount > MAX_ELEMENTS)
    => /\ document.error # "none"
       /\ document.version = document.versionBefore

\* C15: a save of a content of more than 1 MiB, or of a content that fails
\* the structure test, is rejected and nothing of it is stored.
C15_OversizeRejected ==
  (document.submitted # <<>> /\
     (document.submitted[1].bytes > 1048576 \/
        InvalidStructure(document.submitted[1])))
    => /\ document.error # "none"
       /\ document.version = document.versionBefore

\* C16: the store holds no event of a command for which validateCommand
\* fails, whether it came alone or in a batch.
C16_InvalidNeverAppended ==
  \A a \in Aggregates : \A i \in 1..Len(events[a]) :
    ValidateCommand(events[a][i].data).valid

\* C19 as stated: a failed poll fetch never brings the client to a state
\* of error the user sees.
C19_FailedPollSwallowed ==
  View(swr) # "Failed to load diagram"

\* C19 amended: a failed fetch is logged and reported: the hook's error is
\* set and a client using the SDK shows "Failed to load diagram" whenever
\* it is not loading; a fetch that succeeds clears the error.
C19_FailedPollReported ==
  /\ swr.last = "failed" =>
       /\ swr.error
       /\ swr.logged >= 1
       /\ (swr.useSDK /\ ~IsLoading(swr)) =>
            View(swr) = "Failed to load diagram"
  /\ swr.last = "ok" => ~swr.error /\ swr.data # <<>>

\* C19 witness: a fetch failed after one had succeeded, and the client
\* shows the error in place of the diagram.
C19_Witness ==
  /\ swr.last = "failed"
  /\ swr.useSDK
  /\ swr.data # <<>>
  /\ ~swr.inFlight
  /\ View(swr) = "Failed to load diagram"

\* the command type the mapping table gives for a supported kind
DocumentedType(kind) ==
  CASE kind = "shape.create" -> "createBpmnElement"
    [] kind = "shape.move" -> "moveBpmnElement"
    [] kind = "element.updateLabel" -> "updateBpmnElement"
    [] kind = "connection.create" -> "connectBpmnElements"
    [] kind = "shape.delete" -> "deleteBpmnElement"

\* C20: translateEvent gives one Command of the documented type for a
\* supported kind, and null without an error for an ignored or an unknown
\* kind.
C20_TranslateMapping ==
  translator.event # <<>> =>
    LET kind == translator.event[1].command
        result == translator.result
    IN /\ ~result.threw
       /\ kind \in SupportedKinds =>
            /\ Len(result.command) = 1
            /\ result.command[1].type = DocumentedType(kind)
       /\ kind \notin SupportedKinds => result.command = <<>>

\* C21: a shape.create of a bpmn:UserTask gives a create command with the
\* shape's id, type TASK, its position and name and task type USER_TASK.
C21_UserTaskCreate ==
  (translator.event # <<>> /\
     translator.event[1].command = "shape.create" /\
     translator.event[1].shapeType = "bpmn:UserTask")
    => /\ ~translator.result.threw
       /\ Len(translator.result.command) = 1
       /\ translator.result.command[1].type = "createBpmnElement"
       /\ LET element == translator.result.command[1].detail
              event == translator.event[1]
          IN /\ element.id = event.id
             /\ element.type = "TASK"
             /\ element.position = [x |-> event.x, y |-> event.y]
             /\ element.name = event.name
             /\ element.properties.taskType = "USER_TASK"

\* C22: the delay starts at 1000 ms, doubles with each retry, is capped at
\* 10000 ms, and never decreases as the retry count grows.
C22_BackoffDoublesAndCaps ==
  /\ \A w \in {waits.prev, waits.last} :
       w # <<>> =>
         /\ w[1].delay <= 10000
         /\ w[1].retryCount \in 0..3 =>
              w[1].delay = 1000 * (2 ^ w[1].retryCount)
         /\ w[1].retryCount >= 4 => w[1].delay = 10000
  /\ (waits.prev # <<>> /\
        waits.prev[1].retryCount <= waits.last[1].retryCount)
       => waits.prev[1].delay <= waits.last[1].delay

\* C22 witness: a call below the cap was followed by a call at the cap.
C22_Witness ==
  /\ waits.prev # <<>>
  /\ waits.prev[1].retryCount = 3
  /\ waits.prev[1].delay = 8000
  /\ waits.last[1].retryCount = 5
  /\ waits.last[1].delay = 10000

\* C25: a Ctrl/Cmd+S pressed after a save that succeeded, with no captured
\* change since, starts no save and says there is nothing to save; and
\* without metadata the press saves exactly when the stack index is above 0.
C25_SaveOnlyWhenChanged ==
  editor.lastKey.pressed =>
    /\ editor.afterSave =>
         /\ ~editor.lastKey.started
         /\ editor.toast = "No changes to save"
    /\ ~editor.metadata.defined =>
         (editor.lastKey.started <=> editor.lastKey.currentIdx > 0)

\* C28: once the component is unmounted no saveHandler is a keydown
\* listener of window and no modeler is left undestroyed.
C28_UnmountCleansUp ==
  (lifecycle.instance > 0 /\ ~lifecycle.mounted)
    => lifecycle.listeners = {} /\ lifecycle.live = {}

\* C29: an instance of the component never has more than one modeler.
C29_SingleModeler ==
  \A i \in Instances :
    Cardinality({modeler \in lifecycle.live : modeler[1] = i}) <= 1

\* C26: every event the command API appends is of a command whose userId
\* is the user of the request's session, and a request without a session
\* appends nothing; the store holds no other event.
C26_AppendedByRequester ==
  /\ \A k \in 1..Len(api) :
       /\ \A j \in 1..Len(api[k].appended) :
            api[k].session # "none" /\ api[k].appended[j] = api[k].session
       /\ api[k].session = "none" =>
            api[k].appended = <<>> /\ api[k].status = 401
  /\ \A a \in Aggregates : \A i \in 1..Len(events[a]) :
       events[a][i].data.userId = SessionUser

\* C26 witness: a batch and a single command of the session user were
\* appended, and a request without a session was turned away.
C26_Witness ==
  /\ \E k \in 1..Len(api) :
       api[k].batch /\ api[k].pc = "done" /\ Len(api[k].appended) = 2
  /\ \E k \in 1..Len(api) : api[k].session = "none" /\ api[k].status = 401
  /\ Len(events["A"]) = 2

\* C27: a batch request answered with an error has appended no event.
C27_FailedBatchAppendsNothing ==
  \A k \in 1..Len(api) :
    (api[k].batch /\ api[k].pc = "done" /\ api[k].status \in {400, 403})
      => api[k].appended = <<>>

\* C30: no command is stranded and every delivery ends. A command that is
\* neither delivered nor dropped is in the pending queue or in the hands of
\* the delivery loop; when no loop is active the queue is empty; and the
\* retry count of a command never passes maxRetries, so with every
\* executeCommand call and every backoff completing the loop reaches the
\* command and delivers or drops it.
C30_NoCommandStranded ==
  /\ loops = <<>> => queue = <<>>
  /\ \A u \in Uids :
       outcome[u] = "pending" =>
         \/ \E k \in 1..Len(queue) : queue[k].uid = u
         \/ \E i \in 1..Len(loops) :
              loops[i].pc = "exec" /\ loops[i].command.uid = u
  /\ \A i \in 1..Len(loops) :
       /\ loops[i].pc = "backoff" =>
            \E k \in 1..Len(queue) : queue[k].uid = loops[i].command.uid
       /\ MapGet(retryCount, loops[i].command.id) <= maxRetries

\* C30 witness: the loop has ended with nothing pending, after one command
\* was dropped and another, enqueued meanwhile, was delivered.
C30_Witness ==
  /\ loops = <<>>
  /\ queue = <<>>
  /\ \E u, v \in Uids :
       /\ EnqueuedBefore(u, v)
       /\ outcome[u] = "dropped"
       /\ outcome[v] = "delivered"

====
